---- MODULE Spec2Model ----
(***************************************************************************)
(* Cart, checkout and admin login of the cosmetic shop (src/app.py), one   *)
(* browser session against the products table.  Every route handler is an *)
(* atomic action (one request at a time per session).  Strings the code    *)
(* parses or trims are sequences of one-character strings; money is the    *)
(* exact integer value of the Decimal.  The flash-message queue of the     *)
(* session is not modelled: no handler reads it.                           *)
(***************************************************************************)
EXTENDS Integers, Sequences, FiniteSets, TLC

\* ------------------------------------------------------------------ bounds
\* add_to_cart is explored while the quantity it stores stays in -MaxDebt..MaxQty
MaxQty == 2
MaxDebt == 1
\* number of distinct tokens uuid4 can produce in the model
NumOrderIds == 2

\* ------------------------------------------------------------- catalog data
\* two of the SEED_ITEMS rows
SeedProducts ==
  [p \in {"mask-cica", "hand-cream-coconut"} |->
     IF p = "mask-cica" THEN [name |-> "CICA", price |-> 129]
                        ELSE [name |-> "Coconut", price |-> 89]]

Pids == DOMAIN SeedProducts

OrderIds == 1..NumOrderIds

\* ------------------------------------------------------------ optional values
\* request.form.get(k) / dict.get(k): <<>> is None, <<v>> is the value v
Missing == <<>>
Given(v) == <<v>>
IsMissing(o) == Len(o) = 0

\* ------------------------------------------------------------------ strings
Digits == <<"0", "1", "2", "3", "4", "5", "6", "7", "8", "9">>

IsSpace(c) == c \in {" ", "\t", "\n"}

IsDigit(c) == \E i \in 1..Len(Digits) : Digits[i] = c

DigitVal(c) == (CHOOSE i \in 1..Len(Digits) : Digits[i] = c) - 1

RECURSIVE LStrip(_)
LStrip(s) == IF s # <<>> /\ IsSpace(Head(s)) THEN LStrip(Tail(s)) ELSE s

RECURSIVE RStrip(_)
RStrip(s) ==
  IF s # <<>> /\ IsSpace(s[Len(s)]) THEN RStrip(SubSeq(s, 1, Len(s) - 1)) ELSE s

\* str.strip()
Strip(s) == RStrip(LStrip(s))

RECURSIVE DigitsValue(_, _)
DigitsValue(s, acc) ==
  IF s = <<>> THEN acc ELSE DigitsValue(Tail(s), 10 * acc + DigitVal(Head(s)))

\* int(str): surrounding whitespace, an optional sign, then one or more digits;
\* anything else raises ValueError (ok = FALSE)
ParseInt(s) ==
  LET t == Strip(s)
      signed == t # <<>> /\ Head(t) \in {"-", "+"}
      body == IF signed THEN Tail(t) ELSE t
      good == body # <<>> /\ \A i \in 1..Len(body) : IsDigit(body[i])
  IN  IF ~good THEN [ok |-> FALSE, val |-> 0]
      ELSE [ok |-> TRUE,
            val |-> IF signed /\ Head(t) = "-" THEN 0 - DigitsValue(body, 0)
                    ELSE DigitsValue(body, 0)]

\* ------------------------------------------------ dict (insertion ordered)
\* a dict is a sequence of [pid, qty] with distinct pids, in insertion order
EmptyDict == <<>>

DictHas(d, k) == \E i \in 1..Len(d) : d[i].pid = k

DictGet(d, k, default) ==
  IF DictHas(d, k) THEN d[CHOOSE i \in 1..Len(d) : d[i].pid = k].qty ELSE default

\* d[k] = v: an existing key keeps its position, a new key goes last
DictSet(d, k, v) ==
  IF DictHas(d, k)
  THEN [i \in 1..Len(d) |-> IF d[i].pid = k THEN [pid |-> k, qty |-> v] ELSE d[i]]
  ELSE Append(d, [pid |-> k, qty |-> v])

\* variant: d.clear()
DictDel_All(d, k) == <<>>

\* del d[k]
DictDel(d, k) == SelectSeq(d, LAMBDA e : e.pid # k)

DictKeys(d) == {d[i].pid : i \in 1..Len(d)}

\* -------------------------------------------------------------------- state
VARIABLES
  session,   \* the session cookie: keys "cart", "last_order" and "_user_id"
             \* (the login state flask_login keeps), each optional
  catalog,   \* ids of the rows of the products table
  resp       \* the answer to the request last handled

vars == <<session, catalog, resp>>


\* --------------------------------------------------------- requests, answers
NoFields == [name |-> Missing, email |-> Missing, address |-> Missing, payment |-> Missing]

\* op: the handler; kind: how it ended; items, total: the snapshot rendered;
\* order: the order shown or minted; dropped: what session["last_order"] held
\* when a checkout assigned it anew
Resp(op, kind, items, total, order) ==
  [op |-> op, kind |-> kind, items |-> items, total |-> total, order |-> order,
   dropped |-> Missing]

Plain(op, kind) == Resp(op, kind, <<>>, 0, Missing)

\* ------------------------------------------------------------ cart utilities
\* variant: a session without a cart is started afresh
get_cart_Fresh(s) ==
  IF IsMissing(s.cart) THEN [cart |-> Given(EmptyDict), last_order |-> Missing, user_id |-> Missing] ELSE s

\* session.setdefault("cart", {}): the session afterwards
get_cart(s) == IF IsMissing(s.cart) THEN [s EXCEPT !.cart = Given(EmptyDict)] ELSE s

\* the dict _get_cart() returns
CartOf(s) == get_cart(s).cart[1]

\* variant: the whole session is replaced by the cart
save_cart_Fresh(s, c) == [cart |-> Given(c), last_order |-> Missing, user_id |-> s.user_id]

\* session["cart"] = cart
save_cart(s, c) == [s EXCEPT !.cart = Given(c)]

\* variant: the lookup never finds a row
find_product_None(pid, cat) == Missing

\* variant: the lookup answers for rows that are gone
find_product_Any(pid, cat) ==
  Given([id |-> pid, name |-> SeedProducts[pid].name, price |-> SeedProducts[pid].price])

\* Product.query.get(pid): <<>> for None
find_product(pid, cat) ==
  IF pid \in cat THEN Given([id |-> pid, name |-> SeedProducts[pid].name,
                             price |-> SeedProducts[pid].price])
  ELSE Missing

\* variant: total = subtotal
accumulate_Assign(total, subtotal) == subtotal

\* total += subtotal
accumulate(total, subtotal) == total + subtotal

\* the for loop of _cart_detail over cart.items()
RECURSIVE cart_detail_loop(_, _, _, _)
cart_detail_loop(c, cat, items, total) ==
  IF c = <<>> THEN [items |-> items, total |-> total]
  ELSE LET e == Head(c)
           p == find_product(e.pid, cat)
       IN  IF IsMissing(p) THEN cart_detail_loop(Tail(c), cat, items, total)
           ELSE LET price == p[1].price
                    subtotal == price * e.qty
                IN  cart_detail_loop(Tail(c), cat,
                      Append(items, [id |-> p[1].id, name |-> p[1].name, price |-> price,
                                     qty |-> e.qty, subtotal |-> subtotal]),
                      accumulate(total, subtotal))

cart_detail(s, cat) == cart_detail_loop(CartOf(s), cat, <<>>, 0)

\* variant: the context processor starts an empty cart
inject_cart_count_Reset(s) == [s EXCEPT !.cart = Given(EmptyDict)]

\* the context processor run by every render_template: it calls _get_cart()
inject_cart_count(s) == get_cart(s)

\* -------------------------------------------------------------------- inputs
Str(t) ==
  CASE t = "" -> <<>>
    [] t = " " -> <<" ">>
    [] t = "-1" -> <<"-", "1">>
    [] t = "0" -> <<"0">>
    [] t = "1" -> <<"1">>
    [] t = " 2" -> <<" ", "2">>
    [] t = "x" -> <<"x">>
    [] t = " n " -> <<" ", "n", " ">>
    [] t = " e " -> <<" ", "e", " ">>
    [] t = "a " -> <<"a", " ">>
    [] t = " p" -> <<" ", "p">>

\* quantity strings the add form may carry
RawQtys == {Str(t) : t \in {"-1", "0", "1", " 2", "x"}}

\* quantity strings the cart form may carry
UpdateQtys == {Str(t) : t \in {"", "-1", "0", " 2", "x"}}

\* ------------------------------------------------------------------ handlers
\* variant: cart[pid] = qty
merged_quantity_Overwrite(c, pid, qty) == qty

\* cart.get(pid, 0) + qty
merged_quantity(c, pid, qty) == DictGet(c, pid, 0) + qty

\* POST /add-to-cart
add_to_cart(pid, rawqty) ==
  LET q == IF IsMissing(rawqty) THEN [ok |-> TRUE, val |-> 1] ELSE ParseInt(rawqty[1])
      p == IF IsMissing(pid) THEN Missing ELSE find_product(pid[1], catalog)
      s1 == get_cart(session)
      new == merged_quantity(s1.cart[1], pid[1], q.val)
  IN  /\ IF ~q.ok
         THEN /\ resp' = Plain("add_to_cart", "ValueError")
              /\ session' = session
         ELSE IF IsMissing(p)
         THEN /\ resp' = Plain("add_to_cart", "NotFound")
              /\ session' = session
         ELSE /\ 0 - MaxDebt <= new /\ new <= MaxQty
              /\ session' = save_cart(s1, DictSet(s1.cart[1], pid[1], new))
              /\ resp' = Plain("add_to_cart", "ok")
      /\ UNCHANGED catalog

\* GET /cart
cart ==
  LET d == cart_detail(session, catalog)
  IN  /\ session' = inject_cart_count(get_cart(session))
      /\ resp' = Resp("cart", "snapshot", d.items, d.total, Missing)
      /\ UNCHANGED catalog

\* variant: abs(n)
clamp_qty_Abs(n) == IF 0 > n THEN 0 - n ELSE n

\* max(0, n)
clamp_qty(n) == IF 0 > n THEN 0 ELSE n

\* the for loop of update_cart over request.form.items(); ok = FALSE when an
\* int() raised
RECURSIVE update_cart_loop(_, _)
update_cart_loop(entries, c) ==
  IF entries = <<>> THEN [ok |-> TRUE, cart |-> c]
  ELSE LET key == Head(entries).key
           value == Head(entries).value
       IN  IF key.prefix # "qty_" THEN update_cart_loop(Tail(entries), c)
           ELSE LET n == IF value = <<>> THEN [ok |-> TRUE, val |-> 0] ELSE ParseInt(value)
                    qty == clamp_qty(n.val)
                IN  IF ~n.ok THEN [ok |-> FALSE, cart |-> c]
                    ELSE IF qty > 0
                         THEN update_cart_loop(Tail(entries), DictSet(c, key.rest, qty))
                         ELSE update_cart_loop(Tail(entries), c)

\* POST /update-cart
update_cart(entries) ==
  LET r == update_cart_loop(entries, EmptyDict)
  IN  /\ IF ~r.ok
         THEN /\ resp' = Plain("update_cart", "ValueError")
              /\ session' = session
         ELSE /\ session' = save_cart(session, r.cart)
              /\ resp' = Plain("update_cart", "ok")
      /\ UNCHANGED catalog

\* POST /remove/<pid>
remove_item(pid) ==
  LET s1 == get_cart(session)
  IN  /\ session' = IF DictHas(s1.cart[1], pid)
                    THEN save_cart(s1, DictDel(s1.cart[1], pid))
                    ELSE s1
      /\ resp' = Plain("remove_item", "ok")
      /\ UNCHANGED catalog

\* variant: no strip()
Field_NoStrip(o) == IF IsMissing(o) THEN <<>> ELSE o[1]

\* (request.form.get(k) or "").strip()
Field(o) == Strip(IF IsMissing(o) THEN <<>> ELSE o[1])

\* variant: the cart is kept
pop_cart_Keep(s) == s

\* session.pop("cart", None)
pop_cart(s) == [s EXCEPT !.cart = Missing]

\* variant: session.get("last_order")
pop_last_order_Peek(s) == s

\* session.pop("last_order", None): the session afterwards
pop_last_order(s) == [s EXCEPT !.last_order = Missing]

\* variant: session.setdefault("last_order", o)
set_last_order_Default(s, o) == IF IsMissing(s.last_order) THEN [s EXCEPT !.last_order = Given(o)] ELSE s

\* session["last_order"] = o
set_last_order(s, o) == [s EXCEPT !.last_order = Given(o)]

\* GET /checkout
checkout_GET ==
  LET d == cart_detail(session, catalog)
  IN  /\ session' = inject_cart_count(get_cart(session))
      /\ resp' = Resp("checkout_GET", "snapshot", d.items, d.total, Missing)
      /\ UNCHANGED catalog

\* POST /checkout
checkout_POST(form) ==
  LET d == cart_detail(session, catalog)
      s1 == get_cart(session)
      name == Field(form.name)
      email == Field(form.email)
      address == Field(form.address)
      payment == Field(form.payment)
  IN  /\ IF name = <<>> \/ email = <<>> \/ address = <<>> \/ payment = <<>>
         THEN /\ resp' = Plain("checkout_POST", "ValidationError")
              /\ session' = s1
         ELSE IF d.items = <<>>
         THEN /\ resp' = Plain("checkout_POST", "EmptyCartError")
              /\ session' = s1
         ELSE \E order_id \in OrderIds :
                LET o == [order_id |-> order_id, email |-> email]
                IN  /\ session' = set_last_order(pop_cart(s1), o)
                    /\ resp' = [Resp("checkout_POST", "Success", <<>>, 0, Given(o))
                                  EXCEPT !.dropped = s1.last_order]
      /\ UNCHANGED catalog

\* GET /order-success
order_success ==
  LET info == session.last_order
      s1 == pop_last_order(session)
  IN  /\ IF IsMissing(info)
         THEN /\ resp' = Plain("order_success", "NoPendingOrder")
              /\ session' = s1
         ELSE /\ resp' = Resp("order_success", "OrderConfirmation", <<>>, 0, info)
              /\ session' = inject_cart_count(s1)
      /\ UNCHANGED catalog

\* ------------------------------------------------------------ admin session
\* os.getenv("ADMIN_USERNAME", "admin"), os.getenv("ADMIN_PASSWORD", "admin123")
AdminUser == "admin"
AdminPass == "admin123"

\* variant: one matching credential is enough
credentials_ok_Or(username, password) ==
  username = Given(AdminUser) \/ password = Given(AdminPass)

\* username == admin_user and password == admin_pass
credentials_ok(username, password) ==
  username = Given(AdminUser) /\ password = Given(AdminPass)

\* login_user(User(id=username)): the session afterwards; username is what
\* request.form.get returned
login_user(s, username) == [s EXCEPT !.user_id = username]

\* logout_user(): the session afterwards
logout_user(s) == [s EXCEPT !.user_id = Missing]

\* current_user.is_authenticated: load_user makes a User of whatever id the
\* session holds
is_authenticated(s) == ~IsMissing(s.user_id)

\* GET /admin/login
admin_login_GET ==
  /\ session' = inject_cart_count(session)
  /\ resp' = Plain("admin_login_GET", "form")
  /\ UNCHANGED catalog

\* POST /admin/login
admin_login_POST(username, password) ==
  /\ IF credentials_ok(username, password)
     THEN /\ session' = login_user(session, username)
          /\ resp' = Plain("admin_login_POST", "LoggedIn")
     ELSE /\ session' = inject_cart_count(session)
          /\ resp' = Plain("admin_login_POST", "BadCredentials")
  /\ UNCHANGED catalog

\* GET /admin/logout, behind @login_required
admin_logout ==
  /\ IF is_authenticated(session)
     THEN /\ session' = logout_user(session)
          /\ resp' = Plain("admin_logout", "LoggedOut")
     ELSE /\ session' = session
          /\ resp' = Plain("admin_logout", "Unauthorized")
  /\ UNCHANGED catalog

\* GET /admin, behind @login_required
admin_dashboard ==
  /\ IF is_authenticated(session)
     THEN /\ session' = inject_cart_count(session)
          /\ resp' = Plain("admin_dashboard", "Dashboard")
     ELSE /\ session' = session
          /\ resp' = Plain("admin_dashboard", "Unauthorized")
  /\ UNCHANGED catalog

\* a row of the products table is deleted outside the request handlers
DeleteProduct(pid) ==
  /\ pid \in catalog
  /\ catalog' = catalog \ {pid}
  /\ UNCHANGED <<session, resp>>

\* ---------------------------------------------------------- request inputs
RECURSIVE QtyEntries(_)
QtyEntries(pids) ==
  {<<>>} \cup
  UNION {{<<[key |-> [prefix |-> "qty_", rest |-> p], value |-> v]>> \o f :
            v \in UpdateQtys, f \in QtyEntries(pids \ {p})} : p \in pids}

\* request.form.items(): one (key, value) per distinct key, in form order; the
\* forms tried carry one quantity per listed product, or a field that is no
\* quantity followed by at most one quantity
UpdateFormsOf(pids) ==
  QtyEntries(pids) \cup
  {<<[key |-> [prefix |-> "", rest |-> "csrf"], value |-> Str("x")]>> \o f :
     f \in {g \in QtyEntries(pids) : Len(g) <= 1}}

UpdateForms == {f : f \in UpdateFormsOf(Pids)}

BlankInputs == {Missing, Given(Str("")), Given(Str(" "))}

AllCheckoutForms ==
  [name : BlankInputs \cup {Given(Str(" n "))},
   email : BlankInputs \cup {Given(Str(" e "))},
   address : BlankInputs \cup {Given(Str("a "))},
   payment : BlankInputs \cup {Given(Str(" p"))}]

BlankCount(form) ==
  Cardinality({k \in {"name", "email", "address", "payment"} : form[k] \in BlankInputs})

\* the checkout forms tried: at most one field blank, or all four missing
CheckoutForms == {f : f \in {g \in AllCheckoutForms : BlankCount(g) <= 1} \cup {NoFields}}

AddPids == {p : p \in {Missing} \cup {Given(p) : p \in Pids}}

AddQtys == {r : r \in {Missing} \cup {Given(r) : r \in RawQtys}}

\* ----------------------------------------------------------- specification
\* request.form of POST /admin/login
Usernames == {Missing, Given("admin"), Given("root")}
Passwords == {Missing, Given("admin123"), Given("admin")}

Init ==
  /\ session = [cart |-> Missing, last_order |-> Missing, user_id |-> Missing]
  /\ catalog = Pids
  /\ resp = Plain("none", "none")

Next ==
  \/ \E pid \in AddPids, rawqty \in AddQtys : add_to_cart(pid, rawqty)
  \/ cart
  \/ \E entries \in UpdateForms : update_cart(entries)
  \/ \E pid \in Pids : remove_item(pid)
  \/ checkout_GET
  \/ \E form \in CheckoutForms : checkout_POST(form)
  \/ order_success
  \/ \E pid \in Pids : DeleteProduct(pid)

Spec == Init /\ [][Next]_vars

\* a session that uses the cart operations only
NextCart ==
  \/ \E pid \in AddPids, rawqty \in AddQtys : add_to_cart(pid, rawqty)
  \/ \E entries \in UpdateForms : update_cart(entries)
  \/ \E pid \in Pids : remove_item(pid)
  \/ cart

SpecCart == Init /\ [][NextCart]_vars

\* a session that also uses the admin routes
NextAdmin ==
  \/ Next
  \/ admin_login_GET
  \/ \E username \in Usernames, password \in Passwords : admin_login_POST(username, password)
  \/ admin_logout
  \/ admin_dashboard

SpecAdmin == Init /\ [][NextAdmin]_vars

\* ------------------------------------------------------------- observations
\* the Cart: the entries of session["cart"], none while the key is absent
Cart == CartOf(session)

\* the pending-order slot
Pending == session.last_order

\* a checkout field that is missing or holds nothing but whitespace
IsBlank(o) == IsMissing(o) \/ \A i \in 1..Len(o[1]) : IsSpace(o[1][i])

AnyBlank(form) ==
  IsBlank(form.name) \/ IsBlank(form.email) \/ IsBlank(form.address) \/ IsBlank(form.payment)

\* ids of the Cart entries the catalog resolves
Resolvable(c, cat) == {pid \in DictKeys(c) : pid \in cat}

\* -------------------------------------------------------------------- claims
\* C1: in every reachable state no Cart entry has quantity <= 0.
C1_NoNonPositiveEntry == \A i \in 1..Len(Cart) : Cart[i].qty > 0

\* C2: submitCheckout with a blank or missing field fails with ValidationError,
\* mints no order and leaves the Cart's entries and quantities as they were.
\* (a step that did not end so is the step of no form with a blank field)
C2_BlankFieldRejected ==
  [][resp'.op = "checkout_POST" =>
       \/ /\ resp'.kind = "ValidationError"
          /\ IsMissing(resp'.order)
          /\ Pending' = Pending
          /\ Cart' = Cart
       \/ \A form \in CheckoutForms : ~(AnyBlank(form) /\ checkout_POST(form))]_vars

C2_Witness ==
  /\ resp.op = "checkout_POST"
  /\ resp.kind = "ValidationError"
  /\ Cart # <<>>

\* C3: submitCheckout with four non-blank fields and a non-empty priced item
\* list succeeds: the Cart is empty, the pending-order slot holds the minted
\* order_id with the trimmed email, and a viewCart that follows returns no items
\* and total 0.
C3_CheckoutSucceeds ==
  [][/\ resp'.op = "checkout_POST" =>
          \A form \in CheckoutForms :
            (/\ ~AnyBlank(form)
             /\ cart_detail(session, catalog).items # <<>>
             /\ checkout_POST(form)) =>
              /\ resp'.kind = "Success"
              /\ Cart' = <<>>
              /\ ~IsMissing(resp'.order)
              /\ resp'.order[1].order_id \in OrderIds
              /\ Pending' = Given([order_id |-> resp'.order[1].order_id,
                                   email |-> Strip(form.email[1])])
     /\ (resp.op = "checkout_POST" /\ resp.kind = "Success" /\ cart) =>
          (resp'.items = <<>> /\ resp'.total = 0)]_vars

C3_Witness ==
  /\ resp.op = "checkout_POST"
  /\ resp.kind = "Success"
  /\ ~IsMissing(Pending)
  /\ Pending[1].email = <<"e">>

\* C4: the pending order is consumed exactly once: readPendingOrder returns the
\* staged order and clears the slot, a read right after a successful checkout
\* returns that checkout's order, an empty slot reads NoPendingOrder, and an
\* empty slot stays empty until a submitCheckout succeeds.
C4_PendingReadOnce ==
  [][/\ (resp'.op = "order_success" /\ order_success) =>
          /\ IsMissing(Pending')
          /\ IF IsMissing(Pending)
             THEN resp'.kind = "NoPendingOrder" /\ IsMissing(resp'.order)
             ELSE resp'.kind = "OrderConfirmation" /\ resp'.order = Pending
          /\ (resp.op = "checkout_POST" /\ resp.kind = "Success") =>
               (resp'.kind = "OrderConfirmation" /\ resp'.order = resp.order)
          /\ (resp.op = "order_success") => resp'.kind = "NoPendingOrder"
     /\ (IsMissing(Pending) /\ ~IsMissing(Pending')) =>
          (resp'.op = "checkout_POST" /\ resp'.kind = "Success")]_vars

C4_Witness ==
  /\ resp.op = "order_success"
  /\ resp.kind = "OrderConfirmation"
  /\ IsMissing(Pending)

\* the operations of the session other than readPendingOrder
OtherOps == {"cart", "add_to_cart", "update_cart", "remove_item", "checkout_GET", "checkout_POST"}

\* C5 as stated: whenever submitCheckout fails with EmptyCartError the Cart is
\* left unchanged and has no entries.
C5_EmptyCartErrorMeansNoEntries ==
  [][(resp'.op = "checkout_POST" /\ resp'.kind = "EmptyCartError"
        /\ \E form \in CheckoutForms : checkout_POST(form)) =>
       (Cart' = Cart /\ Cart = <<>>)]_vars

\* C5 amended: whenever submitCheckout fails with EmptyCartError the Cart and the
\* pending-order slot are left unchanged and no Cart entry resolves in the
\* catalog (entries with stale ids may remain).
C5_EmptyCartErrorMeansNothingPriced ==
  [][(resp'.op = "checkout_POST" /\ resp'.kind = "EmptyCartError"
        /\ \E form \in CheckoutForms : checkout_POST(form)) =>
       (Cart' = Cart /\ Pending' = Pending /\ Resolvable(Cart, catalog) = {})]_vars

C5_Witness ==
  /\ resp.op = "checkout_POST"
  /\ resp.kind = "EmptyCartError"
  /\ Cart # <<>>

\* C6 as stated: a readPendingOrder issued after an operation other than
\* readPendingOrder that was not itself a successful checkout returns
\* NoPendingOrder.
C6_DiscardedAfterOneOperation ==
  [][(/\ resp'.op = "order_success"
      /\ order_success
      /\ resp.op \in OtherOps
      /\ resp.kind # "Success") => resp'.kind = "NoPendingOrder"]_vars

\* C6 amended: a staged pending order stays in the slot, unchanged, through
\* every operation except the readPendingOrder that consumes it and a later
\* successful submitCheckout that overwrites it; the read returns it.
C6_HeldUntilRead ==
  [][/\ (~IsMissing(Pending) /\ Pending' # Pending) =>
          \/ resp'.op = "order_success" /\ order_success
          \/ resp'.op = "checkout_POST" /\ resp'.kind = "Success"
     /\ (~IsMissing(Pending) /\ resp'.op = "order_success" /\ order_success) =>
          (resp'.kind = "OrderConfirmation" /\ resp'.order = Pending)]_vars

C6_Witness ==
  /\ ~IsMissing(Pending)
  /\ resp.op \in OtherOps
  /\ resp.kind # "Success"

\* the integer add_to_cart is asked to add
RequestedQty(rawqty) ==
  IF IsMissing(rawqty) THEN [ok |-> TRUE, val |-> 1] ELSE ParseInt(rawqty[1])

\* C7: add(product_id, q) with a resolvable product_id sets Cart[product_id] to
\* its previous quantity (0 if absent) plus q and leaves every other entry as it
\* was; so successive adds of positive quantities sum.
C7_AddMerges ==
  [][resp'.op = "add_to_cart" =>
       \A pid \in Pids, rawqty \in AddQtys :
         (/\ pid \in catalog
          /\ RequestedQty(rawqty).ok
          /\ add_to_cart(Given(pid), rawqty)) =>
           /\ resp'.kind = "ok"
           /\ DictHas(Cart', pid)
           /\ DictGet(Cart', pid, 0) = DictGet(Cart, pid, 0) + RequestedQty(rawqty).val
           /\ \A other \in Pids \ {pid} :
                /\ DictHas(Cart', other) = DictHas(Cart, other)
                /\ DictGet(Cart', other, 0) = DictGet(Cart, other, 0)]_vars

C7_Witness ==
  /\ resp.op = "add_to_cart"
  /\ resp.kind = "ok"
  /\ Len(Cart) = 2
  /\ \E i \in 1..Len(Cart) : Cart[i].qty = 2

\* the quantity a cart-form value stands for: empty counts as 0
FormQty(value) == IF value = <<>> THEN [ok |-> TRUE, val |-> 0] ELSE ParseInt(value)

IsQtyEntry(e) == e.key.prefix = "qty_"

\* every quantity of the form parses
AllParse(entries) ==
  \A i \in 1..Len(entries) : IsQtyEntry(entries[i]) => FormQty(entries[i].value).ok

\* the (product id, quantity) pairs of the form with a quantity above 0
Survivors(entries) ==
  {<<entries[i].key.rest, FormQty(entries[i].value).val>> :
     i \in {j \in 1..Len(entries) :
              IsQtyEntry(entries[j]) /\ FormQty(entries[j].value).val > 0}}

DictPairs(d) == {<<d[i].pid, d[i].qty>> : i \in 1..Len(d)}

\* C8: replace_all(entries) overwrites the Cart with exactly the entries whose
\* parsed quantity is above 0, whatever the Cart was before, and a second call
\* with the same input changes nothing.
C8_ReplaceAllOverwrites ==
  [][resp'.op = "update_cart" =>
       \A entries \in UpdateForms :
         (AllParse(entries) /\ update_cart(entries)) =>
           /\ resp'.kind = "ok"
           /\ DictPairs(Cart') = Survivors(entries)
           /\ Len(Cart') = Cardinality(Survivors(entries))
           /\ save_cart(session', update_cart_loop(entries, EmptyDict).cart) = session']_vars

C8_Witness ==
  /\ resp.op = "update_cart"
  /\ resp.kind = "ok"
  /\ Len(Cart) = 1

RECURSIVE SumSubtotals(_)
SumSubtotals(items) ==
  IF items = <<>> THEN 0 ELSE Head(items).subtotal + SumSubtotals(Tail(items))

\* C9: the total of a snapshot equals the sum of the subtotals of its line items.
C9_TotalIsSumOfSubtotals ==
  resp.kind = "snapshot" => resp.total = SumSubtotals(resp.items)

C9_Witness ==
  /\ resp.kind = "snapshot"
  /\ Len(resp.items) = 2
  /\ resp.total = 129 + 89 + 89

\* the Cart entries whose id the catalog resolves, in the Cart's order
Priced(c, cat) == SelectSeq(c, LAMBDA e : e.pid \in cat)

\* C10: compute_snapshot returns one line item per Cart entry that resolves in
\* the catalog, in the Cart's order, with that entry's quantity and subtotal =
\* unit_price * quantity; an entry with a stale id yields no line item and the
\* total is that of the Cart without the entry.
C10_SnapshotLineItems ==
  [][((resp'.op = "cart" /\ cart) \/ (resp'.op = "checkout_GET" /\ checkout_GET)) =>
       LET priced == Priced(Cart, catalog)
       IN  /\ resp'.kind = "snapshot"
           /\ Len(resp'.items) = Len(priced)
           /\ \A i \in 1..Len(priced) :
                /\ resp'.items[i].id = priced[i].pid
                /\ resp'.items[i].qty = priced[i].qty
                /\ resp'.items[i].price = SeedProducts[priced[i].pid].price
                /\ resp'.items[i].subtotal = SeedProducts[priced[i].pid].price * priced[i].qty
           /\ \A pid \in DictKeys(Cart) \ catalog :
                resp'.total = cart_detail_loop(DictDel(Cart, pid), catalog, <<>>, 0).total]_vars

C10_Witness ==
  /\ resp.op = "cart"
  /\ Len(Cart) = 2
  /\ Len(resp.items) = 1
  /\ resp.items[1].qty = 2
  /\ resp.total = resp.items[1].subtotal

\* C11: add with a product_id the catalog cannot resolve fails with NotFound and
\* leaves the Cart (and the rest of the session) unchanged, whatever the
\* requested quantity.
C11_AddUnknownProduct ==
  [][resp'.op = "add_to_cart" =>
       \A pid \in AddPids, rawqty \in AddQtys :
         (/\ IsMissing(pid) \/ pid[1] \notin catalog
          /\ RequestedQty(rawqty).ok
          /\ add_to_cart(pid, rawqty)) =>
           /\ resp'.kind = "NotFound"
           /\ Cart' = Cart
           /\ session' = session]_vars

C11_Witness ==
  /\ resp.op = "add_to_cart"
  /\ resp.kind = "NotFound"
  /\ Cart # <<>>

\* C12: viewCart and reviewCheckout leave the Cart's entries and the pending
\* order as they were, and computing the snapshot again right after gives the
\* snapshot just returned.
C12_ViewsReadOnly ==
  [][((resp'.op = "cart" /\ cart) \/ (resp'.op = "checkout_GET" /\ checkout_GET)) =>
       /\ Cart' = Cart
       /\ Pending' = Pending
       /\ cart_detail(session', catalog').items = resp'.items
       /\ cart_detail(session', catalog').total = resp'.total]_vars

C12_Witness ==
  /\ resp.op = "checkout_GET"
  /\ resp.kind = "snapshot"
  /\ Len(Cart) = 2
  /\ ~IsMissing(Pending)

\* C13: remove(product_id) leaves the Cart without an entry for product_id and
\* every other entry as it was, in the same order; with product_id absent it
\* changes no entry and is no error.
C13_RemoveOnlyThatEntry ==
  [][resp'.op = "remove_item" =>
       \A pid \in Pids :
         remove_item(pid) =>
           /\ resp'.kind = "ok"
           /\ ~DictHas(Cart', pid)
           /\ Cart' = SelectSeq(Cart, LAMBDA e : e.pid # pid)
           /\ ~DictHas(Cart, pid) => Cart' = Cart
           /\ Pending' = Pending]_vars

C13_Witness ==
  /\ resp.op = "remove_item"
  /\ resp.kind = "ok"
  /\ Len(Cart) = 1

\* a step of POST /checkout that minted an order
CheckoutSucceeded ==
  /\ resp'.op = "checkout_POST"
  /\ resp'.kind = "Success"
  /\ \E form \in CheckoutForms : checkout_POST(form)

\* the operations that mint no order and read none
QuietOps == {"add_to_cart", "update_cart", "remove_item", "cart", "checkout_GET"}

\* C15: the pending-order slot is written only by a successful submitCheckout:
\* add, replace_all, remove, viewCart, reviewCheckout and a failed submitCheckout
\* leave it exactly as it was, and a value newly in the slot is the order a
\* successful submitCheckout has just returned.
C15_PendingWrittenOnlyByCheckout ==
  [][/\ resp'.op \in QuietOps => Pending' = Pending
     /\ (resp'.op = "checkout_POST" /\ resp'.kind # "Success") => Pending' = Pending
     /\ (Pending' # Pending /\ ~IsMissing(Pending')) =>
          (CheckoutSucceeded /\ Pending' = resp'.order)]_vars

C15_Witness ==
  /\ ~IsMissing(Pending)
  /\ resp.op = "checkout_POST"
  /\ resp.kind = "ValidationError"
  /\ Cart # <<>>

\* C16: after a successful submitCheckout the Cart is empty and the slot holds the
\* order; an empty Cart gets an entry only from add or replace_all; submitCheckout
\* with valid fields on an empty Cart fails with EmptyCartError, mints nothing and
\* leaves Cart and slot as they were; and the readPendingOrder that follows
\* returns the order of the first call.
C16_DoubleSubmissionRejected ==
  [][/\ (resp'.op = "checkout_POST" /\ resp'.kind = "Success") =>
          (Cart' = <<>> /\ Pending' = resp'.order)
     /\ (Cart = <<>> /\ Cart' # <<>>) => resp'.op \in {"add_to_cart", "update_cart"}
     /\ (Cart = <<>> /\ resp'.op = "checkout_POST") =>
          \A form \in CheckoutForms :
            (~AnyBlank(form) /\ checkout_POST(form)) =>
              /\ resp'.kind = "EmptyCartError"
              /\ IsMissing(resp'.order)
              /\ Cart' = <<>>
              /\ Pending' = Pending
     /\ (resp.op = "checkout_POST" /\ resp.kind = "Success" /\ resp'.op = "checkout_POST") =>
          \A form \in CheckoutForms :
            (~AnyBlank(form) /\ checkout_POST(form)) =>
              (resp'.kind = "EmptyCartError" /\ Pending' = resp.order)
     /\ (resp.op = "checkout_POST" /\ resp.kind = "EmptyCartError"
           /\ resp'.op = "order_success" /\ order_success) =>
          resp'.order = Pending]_vars

C16_Witness ==
  /\ resp.op = "checkout_POST"
  /\ resp.kind = "EmptyCartError"
  /\ ~IsMissing(Pending)
  /\ Cart = <<>>

\* C17: the slot holds one order: a successful submitCheckout replaces whatever
\* the slot held by the order it returns, and readPendingOrder returns what the
\* slot holds (the order_id and email of the most recent successful checkout) and
\* leaves the slot empty, so the replaced order is never returned.
C17_LatestOrderWins ==
  [][/\ CheckoutSucceeded =>
          /\ resp'.dropped = Pending
          /\ Pending' = resp'.order
          /\ Len(Pending') = 1
     /\ (resp'.op = "order_success" /\ order_success) =>
          /\ resp'.order = Pending
          /\ IsMissing(Pending')
          /\ (resp.op = "checkout_POST" /\ resp.kind = "Success") =>
               /\ resp'.order[1].order_id = resp.order[1].order_id
               /\ resp'.order[1].email = resp.order[1].email]_vars

C17_Witness ==
  /\ resp.op = "checkout_POST"
  /\ resp.kind = "Success"
  /\ ~IsMissing(resp.dropped)
  /\ resp.dropped # resp.order
  /\ Pending = resp.order

\* the session is in the logged-in state
LoggedIn == ~IsMissing(session.user_id)

AdminOps == {"admin_dashboard", "admin_logout"}

\* C18: the admin dashboard and admin logout are served only to a logged-in
\* session; the session becomes logged in only by an admin_login POST whose
\* username and password both equal the configured ones; a login POST with any
\* other credentials leaves the login state as it was; admin_logout leaves the
\* session logged out; no shop handler touches the login state.
C18_AdminGate ==
  [][/\ (resp'.op \in AdminOps /\ (admin_dashboard \/ admin_logout)) =>
          /\ resp'.kind # "Unauthorized" => LoggedIn
          /\ ~LoggedIn => (resp'.kind = "Unauthorized" /\ session' = session)
     /\ (~LoggedIn /\ LoggedIn') =>
          /\ resp'.op = "admin_login_POST"
          /\ admin_login_POST(Given("admin"), Given("admin123"))
     /\ resp'.op = "admin_login_POST" =>
          \A username \in Usernames, password \in Passwords :
            (/\ username # Given("admin") \/ password # Given("admin123")
             /\ admin_login_POST(username, password)) =>
              /\ resp'.kind = "BadCredentials"
              /\ session'.user_id = session.user_id
     /\ (resp'.op = "admin_logout" /\ admin_logout) => ~LoggedIn'
     /\ resp'.op \in OtherOps \cup {"order_success"} =>
          session'.user_id = session.user_id]_vars

C18_Witness ==
  /\ LoggedIn
  /\ resp.op = "admin_login_POST"
  /\ resp.kind = "BadCredentials"
  /\ Cart # <<>>

====
